---- MODULE Spec2Model ----
(***************************************************************************)
(* The module-graph driver of crates/module-graph (module_graph.rs) as a   *)
(* state machine.  The recursion of load_module / load_module_at_path is   *)
(* an explicit stack of frames; one step runs the code of the top frame up *)
(* to its next recursive call or return.                                   *)
(***************************************************************************)
EXTENDS Integers, Sequences, FiniteSets, TLC

VARIABLES
    files,          \* the file system: contents of every source file (fixed)
    graph,          \* ModuleGraph.graph: the GraphMap, [nodes, edges]
    modules,        \* ModuleGraph.modules: FxIndexMap, in insertion order
    packages,       \* ModuleGraph.packages: manifest path -> PackageJson
    next_id,        \* ModuleGraph.next_id
    paths_to_ids,   \* ModuleGraph.paths_to_ids
    stack,          \* active load_module_at_path calls, innermost last
    pending,        \* an Err being returned through the enclosing calls
    result,         \* what the last outermost call returned
    ncalls,         \* number of outermost calls made
    last,           \* the most recent outermost call
    parsed,         \* history: path -> times load_and_parse_source read it
    manifest_read,  \* history: the latest step read a manifest from disk
    aborted,        \* history: ids whose load returned an error
    program,        \* the AST (or JSON document) a source handler parses
    todo,           \* the visitor callbacks the walk of the AST has yet to make
    extractor       \* ExtractImportsExports: module, stats and the span sets

vars == <<files, graph, modules, packages, next_id,
          paths_to_ids, stack, pending, result, ncalls, last, parsed,
          manifest_read, aborted, program, todo, extractor>>

\* what a step of a load leaves alone
beside == <<program, todo, extractor>>

graphVars == <<graph, modules, packages, next_id,
               paths_to_ids>>

-----------------------------------------------------------------------------
(* Bounds of the model *)

MaxImports == 1
MaxExports == 1
MaxCalls == 2

-----------------------------------------------------------------------------
(* Option<T> *)

NoneV == <<>>
Some(x) == <<x>>
IsSome(o) == o # <<>>
Unwrap(o) == o[1]

-----------------------------------------------------------------------------
(* Paths: the sequence of components of a std::path::Path.  Path equality  *)
(* and hashing compare components, and interior "." components are not     *)
(* components at all, so the only uncleaned spellings that differ as keys  *)
(* are the ones with "..".                                                 *)

Root == "/"

IsAbsolute(p) == Len(p) > 0 /\ p[1] = Root

RECURSIVE CleanFrom(_, _, _)
CleanFrom(p, i, acc) ==
    IF i > Len(p) THEN acc
    ELSE LET c == p[i]
             n == Len(acc)
         IN  IF c = "." THEN CleanFrom(p, i + 1, acc)
             ELSE IF c = ".."
                  THEN IF n > 0 /\ acc[n] \notin {Root, ".."}
                       THEN CleanFrom(p, i + 1, SubSeq(acc, 1, n - 1))
                       ELSE IF n > 0 /\ acc[n] = Root
                            THEN CleanFrom(p, i + 1, acc)
                            ELSE CleanFrom(p, i + 1, Append(acc, c))
                  ELSE CleanFrom(p, i + 1, Append(acc, c))

Clean(p) ==
    LET r == CleanFrom(p, 1, <<>>) IN IF r = <<>> THEN <<".">> ELSE r

\* the fixed points of clean()
IsClean(p) == Clean(p) = p

Parent(p) == SubSeq(p, 1, Len(p) - 1)

-----------------------------------------------------------------------------
(* The project on disk: /p/a.ts, and /p/n/b.ts inside the package whose    *)
(* manifest is /p/n/package.json.                                          *)

DirP == <<Root, "p">>
DirN == <<Root, "p", "n">>
FileA == <<Root, "p", "a.ts">>
FileB == <<Root, "p", "n", "b.ts">>
ManifestN == <<Root, "p", "n", "package.json">>
Files == {FileA, FileB}

Specifier(segs, query, fragment) ==
    [segs |-> segs, query |-> query, fragment |-> fragment]
Plain(segs) == Specifier(segs, NoneV, NoneV)

SeqsUpTo(S, n) == UNION {[1..k -> S] : k \in 0..n}

\* a.ts is any file of up to MaxImports import statements and MaxExports
\* export statements over these specifiers (b.ts, a missing file)
SpecsOfA == {Plain(<<".", "n", "b">>), Plain(<<".", "x">>)}
ContentsOfA ==
    [imports : SeqsUpTo(SpecsOfA, MaxImports),
     exports : SeqsUpTo({NoneV} \cup {Some(s) : s \in SpecsOfA}, MaxExports)]

\* b.ts is empty, or imports a.ts, or imports itself, or imports a missing
\* file, or re-exports a.ts
ContentsOfB ==
    {[imports |-> <<>>, exports |-> <<>>],
     [imports |-> <<Plain(<<"..", "a">>)>>, exports |-> <<>>],
     [imports |-> <<Plain(<<".", "b">>)>>, exports |-> <<>>],
     [imports |-> <<Plain(<<".", "x">>)>>, exports |-> <<>>],
     [imports |-> <<>>, exports |-> <<Some(Plain(<<"..", "a">>))>>]}

Worlds ==
    {[f \in Files |-> IF f = FileA THEN ca ELSE cb] :
        ca \in ContentsOfA, cb \in ContentsOfB}

-----------------------------------------------------------------------------
(* Resolver::resolve, the black box behind load_module.  It finds the file *)
(* (trying the .ts extension) and reports its path, query, fragment and    *)
(* manifest; the path it reports is not assumed to be cleaned.             *)

WithExtension(name) ==
    CASE name = "a" -> "a.ts"
      [] name = "b" -> "b.ts"
      [] OTHER -> name

Joined(dir, segs) ==
    LET j == dir \o segs
    IN  IF Len(segs) = 0 THEN j
        ELSE [j EXCEPT ![Len(j)] = WithExtension(j[Len(j)])]

PackageOf(file) == IF file = FileB THEN Some(ManifestN) ELSE NoneV

Resolve(dir, spec) ==
    LET target == Joined(dir, spec.segs)
    IN  IF Clean(target) \in Files
        THEN [ok |-> TRUE, path |-> target, query |-> spec.query,
              fragment |-> spec.fragment,
              package_json |-> PackageOf(Clean(target))]
        ELSE [ok |-> FALSE, path |-> <<>>, query |-> NoneV,
              fragment |-> NoneV, package_json |-> NoneV]

-----------------------------------------------------------------------------
(* The records of module.rs, as far as the driver reads or writes them.    *)

\* what parsing a file yields: Import { module_id: 0, source_request, .. }
ParsedImports(content) ==
    [i \in 1..Len(content.imports) |->
        [source_request |-> content.imports[i], module_id |-> 0]]

\* ... and Export { module_id: None, source, .. }
ParsedExports(content) ==
    [i \in 1..Len(content.exports) |->
        [source |-> content.exports[i], module_id |-> NoneV]]

ModuleNew(path) ==
    [id |-> 0, path |-> path, query |-> NoneV, fragment |-> NoneV,
     package_name |-> NoneV, imports |-> <<>>, exports |-> <<>>]

\* the PackageJson read from a manifest file
ManifestData(path) == [name |-> Some("n")]

\* Module::load_and_parse_source: the file behind `path` is read and parsed
LoadAndParseSource(module, package_json, content, readOk) ==
    LET named == IF IsSome(package_json)
                 THEN [module EXCEPT !.package_name = Unwrap(package_json).name]
                 ELSE module
    IN  IF readOk
        THEN [ok |-> TRUE,
              module |-> [named EXCEPT !.imports = ParsedImports(content),
                                       !.exports = ParsedExports(content)]]
        ELSE [ok |-> FALSE, module |-> named]

\* ExtractImportsExports { module, stats, extracted_dynamic_imports,
\* extracted_requires } over a module that has no imports or exports yet
NewExtractor ==
    [module |-> [imports |-> <<>>, exports |-> <<>>],
     stats |-> [require_count |-> 0, dynamic_import_count |-> 0,
                exports_default |-> FALSE],
     extracted_dynamic_imports |-> {},
     extracted_requires |-> {}]

-----------------------------------------------------------------------------
(* ModuleGraph *)

\* mutant: a manifest that cannot be read is cached all the same
LoadPackageJsonCachesFailure(pk, path, readOk) ==
    IF path \in DOMAIN pk
    THEN [ok |-> TRUE, json |-> Some(pk[path]), packages |-> pk,
          read |-> FALSE]
    ELSE [ok |-> readOk,
          json |-> IF readOk THEN Some(ManifestData(path)) ELSE NoneV,
          packages |-> [x \in DOMAIN pk \cup {path} |->
                           IF x = path THEN ManifestData(path) ELSE pk[x]],
          read |-> TRUE]

\* ModuleGraph::load_package_json
LoadPackageJson(pk, path, readOk) ==
    IF path \in DOMAIN pk
    THEN [ok |-> TRUE, json |-> Some(pk[path]), packages |-> pk,
          read |-> FALSE]
    ELSE IF readOk
         THEN [ok |-> TRUE, json |-> Some(ManifestData(path)),
               packages |-> [x \in DOMAIN pk \cup {path} |->
                                IF x = path THEN ManifestData(path) ELSE pk[x]],
               read |-> TRUE]
         ELSE [ok |-> FALSE, json |-> NoneV, packages |-> pk, read |-> TRUE]

\* mutant: the lookup never finds the path
LookupMiss(p2i, path) == NoneV

\* self.paths_to_ids.get(resolved_path)
Lookup(p2i, path) ==
    IF path \in DOMAIN p2i THEN Some(p2i[path]) ELSE NoneV

\* mutant: the path is never registered
InsertPathForgotten(p2i, path, id) == p2i

\* mutant: the path is registered under the id after the increment
InsertPathNextId(p2i, path, id) ==
    [x \in DOMAIN p2i \cup {path} |-> IF x = path THEN id + 1 ELSE p2i[x]]

\* self.paths_to_ids.insert(resolved_path.to_owned(), module_id)
InsertPath(p2i, path, id) ==
    [x \in DOMAIN p2i \cup {path} |-> IF x = path THEN id ELSE p2i[x]]

\* mutant: the counter is not advanced
NextIdStuck(n) == n

\* self.next_id += 1   (u32; far from wrapping with the files of the model)
NextIdAfter(n) == n + 1

\* GraphMap::default()
EmptyGraph == [nodes |-> {}, edges |-> {}]

\* GraphMap::add_node
AddNode(g, n) == [g EXCEPT !.nodes = g.nodes \cup {n}]

\* GraphMap::add_edge(a, b, weight): the end points become nodes; a GraphMap
\* holds one edge per ordered pair of nodes, and an edge already there has
\* its weight replaced.  An edge is <<from, to, weight>>.
AddEdge(g, a, b, w) ==
    [nodes |-> g.nodes \cup {a, b},
     edges |-> {e \in g.edges : <<e[1], e[2]>> # <<a, b>>} \cup {<<a, b, w>>}]

\* load_module's argument to load_module_at_path
CanonicalPath(resolved) == Clean(resolved.path)

\* mutant: the id is not stored
ExportModuleIdUnset(dep) == NoneV

\* export.module_id = Some(dep_module_id)
ExportModuleId(dep) == Some(dep)

\* IndexMap::insert: a new key is appended, an old key keeps its place
ModulesInsert(ms, m) ==
    IF \E i \in 1..Len(ms) : ms[i].id = m.id
    THEN [i \in 1..Len(ms) |-> IF ms[i].id = m.id THEN m ELSE ms[i]]
    ELSE Append(ms, m)

ModuleIds == {modules[i].id : i \in 1..Len(modules)}

Ok(id) == [kind |-> "ok", id |-> id, error |-> "none"]
Err(e) == [kind |-> "err", id |-> 0, error |-> e]
NoResult == [kind |-> "none", id |-> 0, error |-> "none"]
\* Ok(Arc<PackageJson>) of load_package_json
OkPackage == [kind |-> "package", id |-> 0, error |-> "none"]

Bump(f, x) ==
    [y \in DOMAIN f \cup {x} |->
        IF y = x THEN (IF x \in DOMAIN f THEN f[x] + 1 ELSE 1) ELSE f[y]]

(* load_module_at_path from its entry to its first recursive call: the     *)
(* lookup, the manifest, the id, the registration and the parse.  `io`     *)
(* says whether the manifest read and the file read succeed.               *)
LoadHead(path, query, fragment, package_json, io) ==
    LET found == Lookup(paths_to_ids, path)
        same == [graph |-> graph, next |-> next_id, p2i |-> paths_to_ids,
                 pk |-> packages, parsed |-> parsed, mread |-> FALSE,
                 module |-> ModuleNew(path), error |-> "none", id |-> 0,
                 registered |-> FALSE]
    IN  IF IsSome(found)
        THEN [same EXCEPT !.id = Unwrap(found)] @@ [kind |-> "hit"]
        ELSE
        LET pj == IF IsSome(package_json)
                  THEN LoadPackageJson(packages, Unwrap(package_json), io.manifest)
                  ELSE [ok |-> TRUE, json |-> NoneV, packages |-> packages,
                        read |-> FALSE]
        IN  IF ~pj.ok
            THEN [same EXCEPT !.error = "PackageJsonError",
                              !.pk = pj.packages,
                              !.mread = pj.read]
                 @@ [kind |-> "err"]
            ELSE
            LET module_id == next_id
                fresh == [ModuleNew(path) EXCEPT !.id = module_id,
                                                 !.fragment = fragment,
                                                 !.query = query]
                lp == LoadAndParseSource(fresh, pj.json, files[Clean(path)],
                                         io.read)
                reg == [same EXCEPT !.graph = AddNode(graph, module_id),
                                    !.next = NextIdAfter(next_id),
                                    !.p2i = InsertPath(paths_to_ids, path, module_id),
                                    !.pk = pj.packages,
                                    !.mread = pj.read,
                                    !.parsed = Bump(parsed, path),
                                    !.id = module_id,
                                    !.module = lp.module,
                                    !.registered = TRUE]
            IN  IF lp.ok THEN reg @@ [kind |-> "new"]
                ELSE [reg EXCEPT !.error = "IoError"] @@ [kind |-> "err"]

-----------------------------------------------------------------------------
(* Frames: a load_module_at_path call past its parse, at statement k of    *)
(* its module (the imports first, then the exports).                       *)

Frame(module) == [module |-> module, k |-> 1]

NImports(f) == Len(f.module.imports)
NStmts(f) == Len(f.module.imports) + Len(f.module.exports)
AtImport(f) == f.k <= NImports(f)
AtExport(f) == f.k > NImports(f) /\ f.k <= NStmts(f)
CurrentExport(f) == f.module.exports[f.k - NImports(f)]

Top == stack[Len(stack)]
Rest == SubSeq(stack, 1, Len(stack) - 1)

\* import.module_id = id  /  export.module_id = Some(id); then the next one
SetDependency(f, id) ==
    IF AtImport(f)
    THEN [f EXCEPT !.module.imports[f.k].module_id = id, !.k = f.k + 1]
    ELSE [f EXCEPT !.module.exports[f.k - NImports(f)].module_id =
                        ExportModuleId(id),
                   !.k = f.k + 1]

\* ModuleGraphEdge of the loop the frame is in
EdgeKind(f) == IF AtImport(f) THEN "Import" ELSE "Export"

\* the outcomes of the two disk reads of a load (manifest, source file), as
\* far as the call gets to them
IO == [manifest : BOOLEAN, read : BOOLEAN]
AllOk == [manifest |-> TRUE, read |-> TRUE]

-----------------------------------------------------------------------------
(* Inputs of the public calls *)

CallDirs == {DirP, DirN}
CallSpecs ==
    {Plain(<<".", "a">>), Specifier(<<".", "a.ts">>, Some("raw"), NoneV),
     Plain(<<".", "n", "b">>), Plain(<<"..", "a">>), Plain(<<".", "b">>),
     Plain(<<".", "x">>)}

AtPathArgs(path, query, fragment, package_json) ==
    [path |-> path, query |-> query, fragment |-> fragment,
     package_json |-> package_json]
CallsAtPath ==
    {AtPathArgs(<<Root, "p", "n", "..", "a.ts">>, Some("q"), Some("f"), NoneV),
     AtPathArgs(<<"p", "a.ts">>, NoneV, NoneV, NoneV)}

\* the manifest under its resolved path and under another spelling
CallsPackageJson ==
    {ManifestN, <<Root, "p", "n", "..", "n", "package.json">>}

-----------------------------------------------------------------------------

Init ==
    /\ files \in Worlds
    /\ graph = EmptyGraph
    /\ modules = <<>>
    /\ packages = <<>>
    /\ next_id = 1
    /\ paths_to_ids = <<>>
    /\ stack = <<>>
    /\ pending = NoneV
    /\ result = NoResult
    /\ ncalls = 0
    /\ last = [key |-> NoneV, found |-> FALSE,
               query |-> NoneV, fragment |-> NoneV]
    /\ parsed = <<>>
    /\ manifest_read = FALSE
    /\ aborted = {}
    /\ program = <<>>
    /\ todo = <<>>
    /\ extractor = NewExtractor

\* the disk outcomes that a load of `path` can meet: none when the path is
\* registered, no manifest outcome when there is no manifest to read, no
\* source outcome when the manifest fails
OutcomesAt(path, package_json) ==
    IF path \in DOMAIN paths_to_ids THEN {AllOk}
    ELSE IF IsSome(package_json) /\ Unwrap(package_json) \notin DOMAIN packages
         THEN {io \in IO : io.manifest \/ io.read}
         ELSE {io \in IO : io.manifest}
OutcomesFor(r) ==
    IF r.ok THEN OutcomesAt(CanonicalPath(r), r.package_json) ELSE {AllOk}

\* the part of a call that LoadHead decides
ApplyHead(h) ==
    /\ next_id' = h.next
    /\ paths_to_ids' = h.p2i
    /\ packages' = h.pk
    /\ parsed' = h.parsed
    /\ manifest_read' = h.mread
    /\ aborted' = IF h.kind = "err" /\ h.registered
                  THEN aborted \cup {h.id} ELSE aborted

\* an outermost load_module_at_path(path, ..): the caller is the embedder
OuterLoadAtPath(path, query, fragment, package_json, io) ==
    \E h \in {LoadHead(path, query, fragment, package_json, io)} :
        /\ ApplyHead(h)
        /\ graph' = h.graph
        /\ stack' = IF h.kind = "new" THEN <<Frame(h.module)>> ELSE <<>>
        /\ result' = CASE h.kind = "hit" -> Ok(h.id)
                       [] h.kind = "err" -> Err(h.error)
                       [] OTHER -> NoResult
        /\ last' = [key |-> Some(path), found |-> h.kind = "hit",
                    query |-> query, fragment |-> fragment]
        /\ ncalls' = ncalls + 1
        /\ UNCHANGED <<files, beside, modules, pending>>

\* pub fn load_module(parent_dir, specifier), called by the embedder
LoadModule(dir, spec, io) ==
    /\ stack = <<>>
    /\ pending = NoneV
    /\ ncalls < MaxCalls
    /\ \E r \in {Resolve(dir, spec)} :
           IF r.ok
           THEN OuterLoadAtPath(CanonicalPath(r), r.query, r.fragment,
                                r.package_json, io)
           ELSE /\ result' = Err("ResolveFailed")
                /\ last' = [key |-> NoneV, found |-> FALSE,
                            query |-> NoneV, fragment |-> NoneV]
                /\ ncalls' = ncalls + 1
                /\ manifest_read' = FALSE
                /\ UNCHANGED <<files, beside, graphVars, stack, pending, parsed,
                               aborted>>

\* pub fn load_module_at_path(path, query, fragment, package_json), called
\* by the embedder; the assert! lets only absolute paths through
LoadModuleAtPath(path, query, fragment, package_json, io) ==
    /\ stack = <<>>
    /\ pending = NoneV
    /\ ncalls < MaxCalls
    /\ IsAbsolute(path)
    /\ OuterLoadAtPath(path, query, fragment, package_json, io)

\* pub fn load_package_json(path), called by the embedder: the manifest is
\* cached under the path as given
LoadPackageJsonCall(path, readOk) ==
    /\ stack = <<>>
    /\ pending = NoneV
    /\ ncalls < MaxCalls
    /\ \E pj \in {LoadPackageJson(packages, path, readOk)} :
           /\ packages' = pj.packages
           /\ manifest_read' = pj.read
           /\ result' = IF pj.ok THEN OkPackage ELSE Err("PackageJsonError")
    /\ last' = [key |-> NoneV, found |-> FALSE,
                query |-> NoneV, fragment |-> NoneV]
    /\ ncalls' = ncalls + 1
    /\ UNCHANGED <<files, beside, graph, modules, next_id, paths_to_ids,
                   stack, pending, parsed, aborted>>

\* the caller's loop body once load_module returned Ok(id): the id is
\* stored in the statement and the edge is added
Returned(g, below, caller, id) ==
    /\ stack' = Append(below, SetDependency(caller, id))
    /\ graph' = AddEdge(g, caller.module.id, id, EdgeKind(caller))

\* self.load_module(parent_dir, source)? inside one of the two loops
LoadDependency(source, io) ==
    \E r \in {Resolve(Parent(Top.module.path), source)} :
        IF ~r.ok
        THEN /\ pending' = Some("ResolveFailed")
             /\ manifest_read' = FALSE
             /\ UNCHANGED <<files, beside, graphVars, stack, result, ncalls, last,
                            parsed, aborted>>
        ELSE \E h \in {LoadHead(CanonicalPath(r), r.query, r.fragment,
                                r.package_json, io)} :
                 /\ ApplyHead(h)
                 /\ pending' = IF h.kind = "err" THEN Some(h.error) ELSE NoneV
                 /\ CASE h.kind = "hit" -> Returned(h.graph, Rest, Top, h.id)
                      [] h.kind = "new" ->
                            /\ stack' = Append(stack, Frame(h.module))
                            /\ graph' = h.graph
                      [] OTHER -> /\ stack' = stack
                                  /\ graph' = h.graph
                 /\ UNCHANGED <<files, beside, modules, result, ncalls, last>>

\* for import in module.imports.iter_mut() { .. }
StepImport(io) ==
    /\ stack # <<>>
    /\ pending = NoneV
    /\ AtImport(Top)
    /\ io \in OutcomesFor(Resolve(Parent(Top.module.path),
                                  Top.module.imports[Top.k].source_request))
    /\ LoadDependency(Top.module.imports[Top.k].source_request, io)

\* for export in module.exports.iter_mut() { .. } with a source
StepExport(io) ==
    /\ stack # <<>>
    /\ pending = NoneV
    /\ AtExport(Top)
    /\ IsSome(CurrentExport(Top).source)
    /\ io \in OutcomesFor(Resolve(Parent(Top.module.path),
                                  Unwrap(CurrentExport(Top).source)))
    /\ LoadDependency(Unwrap(CurrentExport(Top).source), io)

\* let Some(source) = &export.source else { continue };
SkipExport ==
    /\ stack # <<>>
    /\ pending = NoneV
    /\ AtExport(Top)
    /\ ~IsSome(CurrentExport(Top).source)
    /\ stack' = Append(Rest, [Top EXCEPT !.k = Top.k + 1])
    /\ manifest_read' = FALSE
    /\ UNCHANGED <<files, beside, graphVars, pending, result, ncalls, last, parsed,
                   aborted>>

\* self.modules.insert(module_id, Arc::new(module)); Ok(module_id)
\* and the caller goes on with the id it was returned
Finish ==
    /\ stack # <<>>
    /\ pending = NoneV
    /\ Top.k > NStmts(Top)
    /\ modules' = ModulesInsert(modules, Top.module)
    /\ IF Len(stack) > 1
       THEN /\ Returned(graph, SubSeq(stack, 1, Len(stack) - 2),
                        stack[Len(stack) - 1], Top.module.id)
            /\ result' = result
       ELSE /\ stack' = <<>>
            /\ graph' = graph
            /\ result' = Ok(Top.module.id)
    /\ manifest_read' = FALSE
    /\ UNCHANGED <<files, beside, packages, next_id, paths_to_ids,
                   pending, ncalls, last, parsed, aborted>>

\* mutant: the caller drops the Err and goes on with its next statement
PropagateCaught ==
    /\ pending # NoneV
    /\ stack # <<>>
    /\ stack' = Append(Rest, [Top EXCEPT !.k = Top.k + 1])
    /\ pending' = NoneV
    /\ manifest_read' = FALSE
    /\ UNCHANGED <<files, beside, graphVars, result, ncalls, last, parsed, aborted>>

\* the `?`: the enclosing call returns the Err it was returned
Propagate ==
    /\ pending # NoneV
    /\ stack # <<>>
    /\ stack' = Rest
    /\ aborted' = aborted \cup {Top.module.id}
    /\ IF Len(stack) = 1
       THEN /\ result' = Err(Unwrap(pending))
            /\ pending' = NoneV
       ELSE UNCHANGED <<result, pending>>
    /\ manifest_read' = FALSE
    /\ UNCHANGED <<files, beside, graphVars, ncalls, last, parsed>>

Next ==
    \/ \E d \in CallDirs, s \in CallSpecs :
          \E io \in OutcomesFor(Resolve(d, s)) : LoadModule(d, s, io)
    \/ \E c \in CallsAtPath :
          \E io \in OutcomesAt(c.path, c.package_json) :
              LoadModuleAtPath(c.path, c.query, c.fragment, c.package_json, io)
    \/ \E path \in CallsPackageJson :
          \E readOk \in (IF path \in DOMAIN packages THEN {TRUE} ELSE BOOLEAN) :
              LoadPackageJsonCall(path, readOk)
    \/ \E io \in IO : StepImport(io)
    \/ \E io \in IO : StepExport(io)
    \/ SkipExport
    \/ Finish
    \/ Propagate

Spec == Init /\ [][Next]_vars

-----------------------------------------------------------------------------
(* Termination of a load *)

\* every path a load can be asked for
AllKeys == Files \cup {c.path : c \in CallsAtPath}

\* the statements a frame still has to run, its return included
Work(f) == NStmts(f) - f.k + 2

RECURSIVE SumWork(_)
SumWork(frames) ==
    IF frames = <<>> THEN 0
    ELSE Work(frames[1]) + SumWork(SubSeq(frames, 2, Len(frames)))

\* more than the work a new frame can bring
FrameWeight == MaxImports + MaxExports + 2

Measure ==
    FrameWeight * Cardinality(AllKeys \ DOMAIN paths_to_ids)
    + SumWork(stack) + (IF pending = NoneV THEN 1 ELSE 0)

CycleWorld ==
    /\ files[FileA] = [imports |-> <<Plain(<<".", "n", "b">>)>>, exports |-> <<>>]
    /\ files[FileB] = [imports |-> <<Plain(<<"..", "a">>)>>, exports |-> <<>>]

FirstLoadReturned ==
    /\ ncalls = 1
    /\ stack = <<>>
    /\ last.key \in {Some(FileA), Some(FileB)}

ParsedAtMostOnce == \A p \in DOMAIN parsed : parsed[p] <= 1

\* the cycle test of the specification, after its first load_module
CycleLoaded ==
    (CycleWorld /\ FirstLoadReturned) =>
        /\ result.kind = "err" => result.error \in {"IoError", "PackageJsonError"}
        /\ result.kind = "ok" =>
              graph = [nodes |-> {1, 2},
                       edges |-> {<<1, 2, "Import">>, <<2, 1, "Import">>}]

\* C1: a load over files that import each other terminates: every step of a
\* load in progress lowers a measure that is never negative (the paths not
\* yet registered, then the statements left on the call stack), because a
\* path is registered before its imports are followed; no registered path is
\* read and parsed twice; and for a.ts importing b.ts importing a.ts the first
\* load_module returns an id unless a disk read failed, leaving two nodes and
\* one Import edge in each direction.
C1_CycleTerminates ==
    [][/\ stack # <<>> => Measure' < Measure
       /\ Measure' >= 0
       /\ ParsedAtMostOnce'
       /\ CycleLoaded']_vars

C1_Witness ==
    /\ CycleWorld
    /\ FirstLoadReturned
    /\ result.kind = "ok"
    /\ Len(modules) = 2
    /\ graph.edges = {<<1, 2, "Import">>, <<2, 1, "Import">>}

-----------------------------------------------------------------------------
(* Identity of modules *)

Ids == {paths_to_ids[p] : p \in DOMAIN paths_to_ids}
StackIds == {stack[i].module.id : i \in 1..Len(stack)}
Stored == {modules[i] : i \in 1..Len(modules)}

\* C2: one id per canonical path: two registered spellings of the same
\* cleaned path have the same id, no two stored modules have the same
\* cleaned path, and a call that returned Ok returned the id of every
\* registered spelling of its path.
C2_SamePathSameId ==
    /\ \A p, q \in DOMAIN paths_to_ids :
          Clean(p) = Clean(q) => paths_to_ids[p] = paths_to_ids[q]
    /\ \A m, n \in Stored : Clean(m.path) = Clean(n.path) => m = n
    /\ (stack = <<>> /\ result.kind = "ok" /\ IsSome(last.key)) =>
          \A p \in DOMAIN paths_to_ids :
              Clean(p) = Clean(Unwrap(last.key)) => paths_to_ids[p] = result.id

IdsDense ==
    /\ next_id >= 1
    /\ graph.nodes = 1..(next_id - 1)
    /\ Ids = 1..(next_id - 1)
    /\ \A p, q \in DOMAIN paths_to_ids :
          paths_to_ids[p] = paths_to_ids[q] => p = q
    /\ \A m \in Stored : m.id \in 1..(next_id - 1) /\ paths_to_ids[m.path] = m.id
    /\ \A i, j \in 1..Len(modules) : modules[i].id = modules[j].id => i = j
    /\ \A i, j \in 1..Len(stack) :
          stack[i].module.id = stack[j].module.id => i = j

\* C3: the ids allocated so far are exactly 1..next_id-1, whether loads
\* succeeded or failed: the graph nodes and the registered ids are that set,
\* no id belongs to two paths or two modules, 0 is not among them, and a step
\* leaves next_id alone or adds one to it.
C3_IdsDense ==
    [][IdsDense' /\ next_id' \in {next_id, next_id + 1}]_vars

C3_Witness == next_id = 4 /\ aborted # {} /\ Len(modules) = 2 /\ stack = <<>>

\* C4: every registered path and every stored Module.path is absolute and
\* cleaned, so that a file has one key.
C4_PathsCleaned ==
    /\ \A p \in DOMAIN paths_to_ids : IsAbsolute(p) /\ IsClean(p)
    /\ \A m \in Stored : IsAbsolute(m.path) /\ IsClean(m.path)
    /\ \A p, q \in DOMAIN paths_to_ids : Clean(p) = Clean(q) => p = q

-----------------------------------------------------------------------------
(* Imports, exports and edges of the stored modules *)

ImportIds(m) ==
    {m.imports[j].module_id : j \in 1..Len(m.imports)} \ {0}
ExportIds(m) ==
    {Unwrap(m.exports[j].module_id) :
        j \in {k \in 1..Len(m.exports) : IsSome(m.exports[k].module_id)}}
Children(m) == ImportIds(m) \cup ExportIds(m)

\* only load_module has been called: every registered path is cleaned
OnlyLoadModule == \A p \in DOMAIN paths_to_ids : IsClean(p)

\* C5: with no load in progress, after load_module calls of which some may
\* have returned an error, every import id other than 0 of a stored module
\* is a graph node and a key of the modules map.
C5_ImportsStored ==
    (stack = <<>> /\ OnlyLoadModule) =>
        \A m \in Stored : ImportIds(m) \subseteq (graph.nodes \cap ModuleIds)

\* C6: in every stored module an export has a module_id exactly when it has
\* a source, and the id is the one registered for the path that the source
\* resolves to from the directory of the module.
C6_ExportsResolved ==
    \A m \in Stored : \A j \in 1..Len(m.exports) :
        LET e == m.exports[j]
        IN  /\ IsSome(e.source) <=> IsSome(e.module_id)
            /\ IsSome(e.source) =>
                  LET r == Resolve(Parent(m.path), Unwrap(e.source))
                  IN  /\ r.ok
                      /\ CanonicalPath(r) \in DOMAIN paths_to_ids
                      /\ Unwrap(e.module_id) = paths_to_ids[CanonicalPath(r)]

C6_Witness ==
    \E m \in Stored : \E j \in 1..Len(m.exports) :
        /\ IsSome(m.exports[j].source)
        /\ Unwrap(m.exports[j].module_id) # m.id
        /\ \E n \in Stored : \E k \in 1..Len(n.exports) :
              ~IsSome(n.exports[k].source)

\* C7: a stored module has an Import edge to every module it imports and an
\* Export edge to every module it re-exports from, both when the two are the
\* same module.
C7_ParallelEdges ==
    \A m \in Stored :
        /\ \A c \in ImportIds(m) : <<m.id, c, "Import">> \in graph.edges
        /\ \A c \in ExportIds(m) : <<m.id, c, "Export">> \in graph.edges

Inserted == Len(modules') > Len(modules)
NewModule == modules'[Len(modules')]

\* C8 as claimed: when a module is inserted into the modules map, all its
\* children are already there.
C8_ChildrenStored ==
    [][Inserted => Children(NewModule) \subseteq ModuleIds]_vars

\* C8 as amended: when a module is inserted into the modules map, each of
\* its children is already there, or is still being loaded (the module
\* itself or a caller of it on the call stack, as in a cycle), or is a
\* module whose load returned an error.
C8_ChildrenStoredOrActive ==
    [][Inserted =>
          /\ NewModule = Top.module
          /\ Children(NewModule) \subseteq
                (ModuleIds \cup StackIds \cup aborted)]_vars

C8_Witness ==
    /\ Len(modules) = 1
    /\ stack # <<>>
    /\ Top.module.id \in Children(modules[1])
    /\ Top.module.id # modules[1].id

-----------------------------------------------------------------------------
(* Errors and lookups *)

IsPrefix(a, b) == Len(a) <= Len(b) /\ SubSeq(b, 1, Len(a)) = a
Extends(f, g) == DOMAIN f \subseteq DOMAIN g /\ \A x \in DOMAIN f : g[x] = f[x]

\* C9: an error is returned by every enclosing load unchanged, down to the
\* embedder, while nothing of the graph state changes; the step that fails
\* only adds to the state, and adds no edge and no module; and no step at
\* all removes a node, a registered path, a stored module or a package, or
\* lowers next_id.
C9_ErrorsPropagate ==
    [][/\ pending # NoneV =>
             /\ UNCHANGED graphVars
             /\ stack # <<>> /\ stack' = Rest
             /\ IF Len(stack) = 1
                THEN result' = Err(Unwrap(pending)) /\ pending' = NoneV
                ELSE result' = result /\ pending' = pending
       /\ (pending' # NoneV \/ (ncalls' # ncalls /\ result'.kind = "err")) =>
             graph'.edges = graph.edges /\ modules' = modules
       /\ graph.nodes \subseteq graph'.nodes
       /\ Extends(paths_to_ids, paths_to_ids')
       /\ Extends(packages, packages')
       /\ IsPrefix(modules, modules')
       /\ next_id' >= next_id]_vars

C9_Witness ==
    /\ ncalls = 1
    /\ stack = <<>>
    /\ result = Err("ResolveFailed")
    /\ Len(modules) = 1
    /\ graph.edges # {}
    /\ DOMAIN packages # {}
    /\ next_id = 3

\* C10: an outermost load_module_at_path of a registered path returns the
\* registered id in one step, reads no manifest and no source file, and
\* leaves graph, modules (so the query, fragment and package of the first
\* load), packages, paths_to_ids and next_id as they were; a nested load that
\* returns at once to its caller's loop leaves all of these but the edges,
\* to which the caller adds its own.
C10_ReloadIsLookup ==
    [][/\ (/\ ncalls' # ncalls
           /\ IsSome(last'.key)
           /\ Unwrap(last'.key) \in DOMAIN paths_to_ids) =>
           /\ result' = Ok(paths_to_ids[Unwrap(last'.key)])
           /\ stack' = <<>>
           /\ UNCHANGED graphVars
           /\ parsed' = parsed
           /\ manifest_read' = FALSE
       /\ (/\ stack # <<>> /\ Len(stack') = Len(stack)
           /\ pending = NoneV /\ pending' = NoneV) =>
           /\ UNCHANGED <<modules, packages, paths_to_ids, next_id, parsed>>
           /\ graph'.nodes = graph.nodes
           /\ manifest_read' = FALSE]_vars

C10_Witness ==
    /\ last.found
    /\ stack = <<>>
    /\ \E m \in Stored :
          /\ result = Ok(m.id)
          /\ m.query = Some("raw")
          /\ m.package_name = NoneV

-----------------------------------------------------------------------------
(* The AST of a JavaScript/TypeScript file, as far as the extractor reads   *)
(* it.  A span is a number; names and sources are strings.                 *)

StringLiteral(value) == [type |-> "StringLiteral", value |-> value]
IdentifierReference(name) == [type |-> "Identifier", name |-> name]
TemplateLiteral == [type |-> "TemplateLiteral"]
BinaryExpression == [type |-> "BinaryExpression"]
NumericLiteral == [type |-> "NumericLiteral"]
CallExpression(span, callee, arguments) ==
    [type |-> "CallExpression", span |-> span, callee |-> callee,
     arguments |-> arguments]
ImportExpression(span, source) ==
    [type |-> "ImportExpression", span |-> span, source |-> source]
AwaitExpression(argument) ==
    [type |-> "AwaitExpression", argument |-> argument]

BindingIdentifier(name) == [kind |-> "BindingIdentifier", name |-> name]
BindingProperty(key, value) == [key |-> key, value |-> value]
ObjectPattern(properties, rest) ==
    [kind |-> "ObjectPattern", properties |-> properties, rest |-> rest]
\* elements: holes are None
ArrayPattern(elements, rest) ==
    [kind |-> "ArrayPattern", elements |-> elements, rest |-> rest]
AssignmentPattern(left) == [kind |-> "AssignmentPattern", left |-> left]

ImportSpecifier(import_kind, imported, local) ==
    [type |-> "ImportSpecifier", import_kind |-> import_kind,
     imported |-> imported, local |-> local]
ImportDefaultSpecifier(local) ==
    [type |-> "ImportDefaultSpecifier", import_kind |-> "value",
     imported |-> "default", local |-> local]
ImportNamespaceSpecifier(local) ==
    [type |-> "ImportNamespaceSpecifier", import_kind |-> "value",
     imported |-> "*", local |-> local]

ImportDeclaration(span, import_kind, specifiers, source) ==
    [type |-> "ImportDeclaration", span |-> span, import_kind |-> import_kind,
     specifiers |-> specifiers, source |-> source]
ExternalModuleReference(value) ==
    [type |-> "ExternalModuleReference", value |-> value]
TSQualifiedName == [type |-> "TSQualifiedName"]
TSImportEqualsDeclaration(span, import_kind, id, module_reference) ==
    [type |-> "TSImportEqualsDeclaration", span |-> span,
     import_kind |-> import_kind, id |-> id,
     module_reference |-> module_reference]
VariableDeclarator(id, init) ==
    [type |-> "VariableDeclarator", id |-> id, init |-> init]
ExpressionStatement(expression) ==
    [type |-> "ExpressionStatement", expression |-> expression]
\* the operand of `export default`: a declaration with an optional id, or an
\* expression
DefaultDeclaration(type, id) ==
    [type |-> type, id |-> id, expression |-> NoneV]
DefaultExpression(expression) ==
    [type |-> "Expression", id |-> NoneV, expression |-> Some(expression)]
ExportDefaultDeclaration(span, declaration) ==
    [type |-> "ExportDefaultDeclaration", span |-> span,
     declaration |-> declaration]

\* CommonJS: `left = right`, `object.property`, class and function
\* expressions with an optional id
AssignmentExpression(span, left, right) ==
    [type |-> "AssignmentExpression", span |-> span, left |-> left,
     right |-> right]
StaticMemberExpression(span, object, property) ==
    [type |-> "StaticMemberExpression", span |-> span, object |-> object,
     property |-> property]
ClassExpression(id) == [type |-> "ClassExpression", id |-> id]
FunctionExpression(id) == [type |-> "FunctionExpression", id |-> id]

\* `export ..` statements
ExportSpecifier(export_kind, local, exported) ==
    [export_kind |-> export_kind, local |-> local, exported |-> exported]
\* the declaration of `export <declaration>`: a list of binding patterns for
\* a VariableDeclaration, an id for the others
VariableDeclaration(declarations) ==
    [type |-> "VariableDeclaration", declarations |-> declarations,
     id |-> ""]
Declaration(type, id) ==
    [type |-> type, declarations |-> <<>>, id |-> id]
ExportNamedDeclaration(span, export_kind, declaration, specifiers, source) ==
    [type |-> "ExportNamedDeclaration", span |-> span,
     export_kind |-> export_kind, declaration |-> declaration,
     specifiers |-> specifiers, source |-> source]
ExportAllDeclaration(span, export_kind, exported, source) ==
    [type |-> "ExportAllDeclaration", span |-> span,
     export_kind |-> export_kind, exported |-> exported, source |-> source]
TSExportAssignment(span, expression) ==
    [type |-> "TSExportAssignment", span |-> span, expression |-> expression]

\* ImportOrExportKind::is_type
IsTypeKind(import_kind) == import_kind = "type"

\* ExportNamedDeclaration::is_typescript_syntax, for declarations without
\* `declare`
ExportNamedIsTypescriptSyntax(export) ==
    \/ IsTypeKind(export.export_kind)
    \/ /\ export.declaration # <<>>
       /\ export.declaration[1].type \notin
              {"VariableDeclaration", "FunctionDeclaration",
               "ClassDeclaration"}

\* ExportDefaultDeclarationKind::is_typescript_syntax
IsTypescriptSyntax(declaration) ==
    declaration.type \in {"TSInterfaceDeclaration", "TSEnumDeclaration"}

-----------------------------------------------------------------------------
(* The files the extractor is run on *)

MaxStatements == 2

\* the statement at position i of a file has the spans from SpanAt(i) on
SpanAt(i) == 10 * i

\* `import ...` statements, at span b
ImportDeclarations(b) ==
    {ImportDeclaration(b, "value", NoneV, "./b"),
     ImportDeclaration(b, "value", NoneV, ""),
     ImportDeclaration(b, "value",
         Some(<<ImportSpecifier("type", "Foo", "Bar")>>), "./x"),
     ImportDeclaration(b, "value",
         Some(<<ImportSpecifier("value", "a", "a"),
                ImportSpecifier("value", "b", "c")>>), "./x"),
     ImportDeclaration(b, "value",
         Some(<<ImportSpecifier("value", "default", "D")>>), "./x"),
     ImportDeclaration(b, "type",
         Some(<<ImportSpecifier("value", "default", "D"),
                ImportSpecifier("value", "a", "a")>>), "./x"),
     ImportDeclaration(b, "type",
         Some(<<ImportSpecifier("value", "Foo", "Bar")>>), "./x"),
     ImportDeclaration(b, "value",
         Some(<<ImportDefaultSpecifier("X"),
                ImportSpecifier("type", "a", "a")>>), "./x"),
     ImportDeclaration(b, "type", Some(<<ImportDefaultSpecifier("X")>>), "./x"),
     ImportDeclaration(b, "value",
         Some(<<ImportNamespaceSpecifier("N")>>), "./x"),
     ImportDeclaration(b, "type",
         Some(<<ImportNamespaceSpecifier("N")>>), "./x"),
     TSImportEqualsDeclaration(b, "value", "X", ExternalModuleReference("./x")),
     TSImportEqualsDeclaration(b, "type", "X", ExternalModuleReference("./x")),
     TSImportEqualsDeclaration(b, "value", "X", TSQualifiedName)}

\* the binding patterns of `const <pattern> = ...`
PatternS4 ==
    ObjectPattern(<<BindingProperty("default", BindingIdentifier("D")),
                    BindingProperty("a", BindingIdentifier("a")),
                    BindingProperty("b", BindingIdentifier("c"))>>,
                  Some(BindingIdentifier("rest")))
Plain1(key, local) ==
    ObjectPattern(<<BindingProperty(key, BindingIdentifier(local))>>, NoneV)
WithDefault1(key, local) ==
    ObjectPattern(<<BindingProperty(key,
                        AssignmentPattern(BindingIdentifier(local)))>>, NoneV)
Patterns ==
    {BindingIdentifier("p"), PatternS4,
     ArrayPattern(<<Some(BindingIdentifier("x")), NoneV>>, NoneV),
     Plain1("a", "a"), WithDefault1("a", "a"),
     Plain1("b", "c"), WithDefault1("b", "c")}

\* require('./p') and import('./p') with a string literal, at span c
LiteralRequire(c) == CallExpression(c, "require", <<StringLiteral("./p")>>)
LiteralImport(c) == ImportExpression(c, StringLiteral("./p"))

\* calls whose source is not one string literal, at span c
NonLiteralCalls(c) ==
    {CallExpression(c, "require", <<IdentifierReference("name")>>),
     CallExpression(c, "require", <<TemplateLiteral>>),
     CallExpression(c, "require", <<>>),
     CallExpression(c, "require", <<StringLiteral("a"), StringLiteral("b")>>),
     ImportExpression(c, IdentifierReference("name")),
     ImportExpression(c, BinaryExpression),
     AwaitExpression(ImportExpression(c, TemplateLiteral))}

\* `const <pattern> = <init>` statements, at span b
VariableDeclarators(b) ==
    {VariableDeclarator(pt, Some(LiteralRequire(b + 1))) : pt \in Patterns}
    \cup {VariableDeclarator(pt, Some(AwaitExpression(LiteralImport(b + 1)))) :
             pt \in Patterns}
    \cup {VariableDeclarator(PatternS4, Some(e)) : e \in NonLiteralCalls(b + 1)}
    \cup {VariableDeclarator(BindingIdentifier("p"), Some(LiteralImport(b + 1))),
          VariableDeclarator(BindingIdentifier("p"), Some(NumericLiteral)),
          VariableDeclarator(BindingIdentifier("p"), NoneV)}

\* expression statements, at span b
ExpressionStatements(b) ==
    {ExpressionStatement(e) : e \in NonLiteralCalls(b + 1)}
    \cup {ExpressionStatement(LiteralRequire(b + 1)),
          ExpressionStatement(LiteralImport(b + 1)),
          ExpressionStatement(AwaitExpression(LiteralImport(b + 1))),
          ExpressionStatement(
              CallExpression(b + 1, "f", <<LiteralRequire(b + 2)>>)),
          ExpressionStatement(
              CallExpression(b + 1, "require", <<LiteralRequire(b + 2)>>)),
          ExpressionStatement(
              CallExpression(b + 1, "f", <<LiteralImport(b + 2)>>))}

\* `export default ...` statements, at span b
ExportDefaultDeclarations(b) ==
    {ExportDefaultDeclaration(b, d) :
        d \in {DefaultDeclaration("ClassDeclaration", Some("Foo")),
               DefaultDeclaration("ClassDeclaration", NoneV),
               DefaultDeclaration("FunctionDeclaration", Some("greet")),
               DefaultDeclaration("FunctionDeclaration", NoneV),
               DefaultDeclaration("TSInterfaceDeclaration", Some("Props")),
               DefaultExpression(IdentifierReference("value")),
               DefaultExpression(NumericLiteral),
               DefaultExpression(CallExpression(b + 1, "f", <<>>))}}

\* `module.exports`, `exports.k` at span c
ModuleExports(c) ==
    StaticMemberExpression(c, IdentifierReference("module"), "exports")
ExportsMember(c, k) ==
    StaticMemberExpression(c, IdentifierReference("exports"), k)

\* CommonJS statements, at span b: assignments to module.exports and to
\* exports.k, other assignments, and reads of exports.k
CommonJsStatements(b) ==
    {ExpressionStatement(AssignmentExpression(b + 1, ModuleExports(b + 2), x)) :
        x \in {IdentifierReference("value"), NumericLiteral,
               ClassExpression(Some("Foo")), ClassExpression(NoneV),
               FunctionExpression(Some("greet")), FunctionExpression(NoneV),
               LiteralRequire(b + 3)}}
    \cup {ExpressionStatement(
              AssignmentExpression(b + 1, ExportsMember(b + 2, "k"), x)) :
             x \in {IdentifierReference("value"), NumericLiteral,
                    ExportsMember(b + 3, "j")}}
    \cup {ExpressionStatement(
              AssignmentExpression(b + 1,
                  StaticMemberExpression(b + 2, IdentifierReference("other"),
                                         "k"),
                  NumericLiteral)),
          ExpressionStatement(
              AssignmentExpression(b + 1,
                  StaticMemberExpression(b + 2, ModuleExports(b + 3), "foo"),
                  NumericLiteral)),
          ExpressionStatement(
              AssignmentExpression(b + 1, IdentifierReference("x"),
                                   NumericLiteral)),
          ExpressionStatement(ExportsMember(b + 1, "k")),
          ExpressionStatement(
              CallExpression(b + 1, "f", <<ExportsMember(b + 2, "k")>>)),
          VariableDeclarator(BindingIdentifier("x"),
                             Some(ExportsMember(b + 1, "k")))}

\* `export ..` statements other than `export default`, at span b
ExportDeclarations(b) ==
    {ExportNamedDeclaration(b, "value", NoneV, sp, src) :
        sp \in {<<ExportSpecifier("value", "a", "a")>>,
                <<ExportSpecifier("value", "b", "c")>>,
                <<ExportSpecifier("value", "a", "a"),
                  ExportSpecifier("type", "T", "U")>>,
                <<ExportSpecifier("value", "default", "D")>>,
                <<>>},
        src \in {NoneV, Some("./x")}}
    \cup {ExportNamedDeclaration(b, "type", NoneV,
                                 <<ExportSpecifier("value", "T", "T")>>, NoneV)}
    \cup {ExportNamedDeclaration(b, "value", Some(d), <<>>, NoneV) :
             d \in {VariableDeclaration(<<BindingIdentifier("x")>>),
                    VariableDeclaration(<<PatternS4, BindingIdentifier("y")>>),
                    VariableDeclaration(<<WithDefault1("b", "c")>>),
                    VariableDeclaration(
                        <<ArrayPattern(<<Some(BindingIdentifier("x")), NoneV,
                                         Some(Plain1("a", "a"))>>,
                                       Some(BindingIdentifier("rest")))>>),
                    Declaration("FunctionDeclaration", "greet"),
                    Declaration("ClassDeclaration", "Foo"),
                    Declaration("TSTypeAliasDeclaration", "T"),
                    Declaration("TSInterfaceDeclaration", "Props"),
                    Declaration("TSEnumDeclaration", "E"),
                    Declaration("TSModuleDeclaration", "M"),
                    Declaration("TSImportEqualsDeclaration", "X")}}
    \cup {ExportAllDeclaration(b, k, e, "./x") :
             k \in {"value", "type"}, e \in {NoneV, Some("N")}}
    \cup {TSExportAssignment(b, IdentifierReference("value")),
          TSExportAssignment(b, ExportsMember(b + 1, "k"))}

Catalogue(b) ==
    ImportDeclarations(b) \cup VariableDeclarators(b)
    \cup ExpressionStatements(b) \cup ExportDefaultDeclarations(b)
    \cup CommonJsStatements(b) \cup ExportDeclarations(b)

\* what may come before the last statement of a file
Leading(b) ==
    <<ExpressionStatement(LiteralRequire(b + 1)),
      ExpressionStatement(AwaitExpression(LiteralImport(b + 1))),
      ImportDeclaration(b, "value", Some(<<ImportDefaultSpecifier("X")>>), "./x"),
      ExportDefaultDeclaration(b, DefaultDeclaration("ClassDeclaration", NoneV))>>

LeadingSeqs ==
    UNION {{[i \in 1..k |-> Leading(SpanAt(i))[f[i]]] :
               f \in [1..k -> 1..Len(Leading(0))]} :
           k \in 0..(MaxStatements - 1)}

\* Program.body of the files: a statement of the catalogue after up to
\* MaxStatements - 1 leading ones
Bodies ==
    UNION {{Append(lead, st) : st \in Catalogue(SpanAt(Len(lead) + 1))} :
           lead \in LeadingSeqs}

\* JSON documents: the keys of an object root in the order object.keys()
\* yields them, or a root that is not an object
JsonKeys == {"a", "b", "default"}
JsonObject(keys) == [type |-> "Object", keys |-> keys]
JsonValues ==
    {JsonObject(ks) :
        ks \in {q \in SeqsUpTo(JsonKeys, Cardinality(JsonKeys)) :
                   \A i, j \in 1..Len(q) : q[i] = q[j] => i = j}}
    \cup {[type |-> t, keys |-> <<>>] :
             t \in {"Array", "String", "Number", "Bool", "Null"}}

JavaScriptFile(body) ==
    [handler |-> "JavaScriptModule", body |-> body, data |-> <<>>]
JsonFile(data) == [handler |-> "JsonModule", body |-> <<>>, data |-> data]

Programs ==
    {JavaScriptFile(body) : body \in Bodies}
    \cup {JsonFile(data) : data \in JsonValues}

-----------------------------------------------------------------------------
(* The records of module.rs that the source handlers emit.  symbol_id, an  *)
(* opaque id of the semantic analysis, is left out.                        *)

ImportedSymbol(kind, source_name, name) ==
    [kind |-> kind, source_name |-> source_name, name |-> name]

\* ImportedSymbol::from_binding
FromBinding(kind, binding) == ImportedSymbol(kind, NoneV, binding)

\* ImportedKind::is_type
ImportedIsType(kind) == kind \in {"DefaultType", "NamespaceType", "ValueType"}

Import(kind, source_request, span, symbols, type_only) ==
    [kind |-> kind, module_id |-> 0, source_request |-> source_request,
     span |-> span, symbols |-> symbols, type_only |-> type_only]

\* Import::is_side_effect
IsSideEffect(import) ==
    import.source_request # "" /\ import.symbols = <<>>

ExportedSymbol(kind, name) == [kind |-> kind, name |-> name]

\* ExportedKind::is_default
ExportedIsDefault(kind) == kind \in {"Default", "DefaultType"}

\* Export::default()
ExportDefault ==
    [kind |-> "Modern", module_id |-> NoneV, source |-> NoneV,
     span |-> NoneV, symbols |-> <<>>, type_only |-> FALSE]

-----------------------------------------------------------------------------
(* The reducers of visit_imports_exports.rs *)

\* one property of an object pattern
PropertySymbol(prop) ==
    LET kind == IF prop.key = "default" THEN "Default" ELSE "Value"
    IN  IF prop.value.kind = "BindingIdentifier"
        THEN ImportedSymbol(kind,
                 IF prop.key = prop.value.name THEN NoneV ELSE Some(prop.key),
                 prop.value.name)
        ELSE ImportedSymbol(kind, NoneV, prop.key)

\* mutant: the symbols of the binding pattern are dropped
NoBindingPattern(binding) == <<>>

\* fn import_binding_pattern(binding, list): what it pushes to the list
RECURSIVE import_binding_pattern(_)
import_binding_pattern(binding) ==
    CASE binding.kind = "BindingIdentifier" ->
            <<ImportedSymbol("Namespace", NoneV, binding.name)>>
      [] binding.kind = "ObjectPattern" ->
            [i \in 1..Len(binding.properties) |->
                PropertySymbol(binding.properties[i])]
            \o (IF IsSome(binding.rest)
                   /\ Unwrap(binding.rest).kind = "BindingIdentifier"
                THEN <<ImportedSymbol("Namespace", NoneV,
                                      Unwrap(binding.rest).name)>>
                ELSE <<>>)
      [] binding.kind = "ArrayPattern" -> <<>>
      [] binding.kind = "AssignmentPattern" ->
            import_binding_pattern(binding.left)

\* fn export_binding_pattern(binding, list): what it pushes to the list
RECURSIVE export_binding_pattern(_)
RECURSIVE ExportPatterns(_, _)
\* the patterns of a list one after the other, holes (None) skipped
ExportPatterns(patterns, i) ==
    IF i > Len(patterns) THEN <<>>
    ELSE (IF IsSome(patterns[i])
          THEN export_binding_pattern(Unwrap(patterns[i])) ELSE <<>>)
         \o ExportPatterns(patterns, i + 1)

export_binding_pattern(binding) ==
    CASE binding.kind = "BindingIdentifier" ->
            <<ExportedSymbol("Value", binding.name)>>
      [] binding.kind = "ObjectPattern" ->
            ExportPatterns([i \in 1..Len(binding.properties) |->
                               Some(binding.properties[i].value)], 1)
            \o ExportPatterns(<<binding.rest>>, 1)
      [] binding.kind = "ArrayPattern" ->
            ExportPatterns(binding.elements, 1)
            \o ExportPatterns(<<binding.rest>>, 1)
      [] binding.kind = "AssignmentPattern" ->
            export_binding_pattern(binding.left)

\* mutant: a specifier is recorded under its imported name
SpecifierSymbolImported(import_kind, spec) ==
    FromBinding("Value", spec.imported)

\* the symbol of one specifier of an import declaration
SpecifierSymbol(import_kind, spec) ==
    CASE spec.type = "ImportSpecifier" ->
            LET value == FromBinding(
                    IF IsTypeKind(import_kind) \/ IsTypeKind(spec.import_kind)
                    THEN "ValueType" ELSE "Value", spec.local)
            IN  IF spec.imported = "default"
                THEN [value EXCEPT !.kind = "Default"]
                ELSE IF spec.imported # value.name
                     THEN [value EXCEPT !.source_name = Some(spec.imported)]
                     ELSE value
      [] spec.type = "ImportDefaultSpecifier" ->
            FromBinding(IF IsTypeKind(import_kind)
                        THEN "DefaultType" ELSE "Default", spec.local)
      [] spec.type = "ImportNamespaceSpecifier" ->
            FromBinding(IF IsTypeKind(import_kind)
                        THEN "NamespaceType" ELSE "Namespace", spec.local)

\* mutant: any operand passes for a source
AnySource(e) == Some("computed")

\* if let Expression::StringLiteral(source) = ..
LiteralSource(e) ==
    IF e.type = "StringLiteral" THEN Some(e.value) ELSE NoneV

\* fn extract_require_from_expression
extract_require_from_expression(expr) ==
    IF expr.type = "CallExpression" /\ expr.callee = "require"
       /\ Len(expr.arguments) = 1
    THEN Some(expr) ELSE NoneV

\* fn extract_dynamic_import_from_expression
extract_dynamic_import_from_expression(expr) ==
    IF expr.type = "AwaitExpression"
       /\ expr.argument.type = "ImportExpression"
    THEN Some(expr.argument) ELSE NoneV

\* mutant: no span counts as processed
ContainsNever(spans, span) == FALSE

\* FxHashSet::contains
Contains(spans, span) == span \in spans

-----------------------------------------------------------------------------
(* The walk of oxc's Visit over a file: the callbacks of the extractor in   *)
(* the order the walk makes them, a node before its children.  A visit_*   *)
(* method the extractor overrides does not walk on into the node.          *)

Callback(visit, node) == [visit |-> visit, node |-> node]

RECURSIVE WalkExpression(_)
RECURSIVE WalkArguments(_, _)
WalkArguments(arguments, i) ==
    IF i > Len(arguments) THEN <<>>
    ELSE WalkExpression(arguments[i]) \o WalkArguments(arguments, i + 1)

WalkExpression(e) ==
    CASE e.type = "CallExpression" ->
            <<Callback("CallExpression", e)>> \o WalkArguments(e.arguments, 1)
      [] e.type = "ImportExpression" -> <<Callback("ImportExpression", e)>>
      [] e.type = "AwaitExpression" -> WalkExpression(e.argument)
      [] e.type = "AssignmentExpression" ->
            <<Callback("AssignmentExpression", e)>>
            \o WalkExpression(e.left) \o WalkExpression(e.right)
      [] e.type = "StaticMemberExpression" ->
            <<Callback("MemberExpression", e)>> \o WalkExpression(e.object)
      [] OTHER -> <<>>

WalkStatement(st) ==
    CASE st.type = "VariableDeclarator" ->
            <<Callback("VariableDeclarator", st)>>
            \o (IF IsSome(st.init) THEN WalkExpression(Unwrap(st.init))
                ELSE <<>>)
      [] st.type = "ExpressionStatement" -> WalkExpression(st.expression)
      [] st.type = "TSExportAssignment" ->
            <<Callback("TSExportAssignment", st)>>
            \o WalkExpression(st.expression)
      [] OTHER -> <<Callback(st.type, st)>>

RECURSIVE WalkBody(_, _)
WalkBody(body, i) ==
    IF i > Len(body) THEN <<>>
    ELSE WalkStatement(body[i]) \o WalkBody(body, i + 1)

\* visitor.visit_program(&program), or the one call of JsonModule::parse
Walk(file) ==
    IF file.handler = "JsonModule" THEN <<Callback("JsonValue", file.data)>>
    ELSE WalkBody(file.body, 1)

-----------------------------------------------------------------------------
(* The callbacks *)

loadVars == <<files, graph, modules, packages, next_id, paths_to_ids, stack,
              pending, result, ncalls, last, parsed, manifest_read, aborted>>

\* the walk is at a node of this kind
At(visit) == todo # <<>> /\ Head(todo).visit = visit

\* the callback has run and left the extractor as x
Leave(x) ==
    /\ extractor' = x
    /\ todo' = Tail(todo)
    /\ UNCHANGED <<program, loadVars>>

\* self.module.imports.push(record)
PushImport(x, record) ==
    [x EXCEPT !.module.imports = Append(@, record)]

\* self.module.exports.push(record)
PushExport(x, record) ==
    [x EXCEPT !.module.exports = Append(@, record)]

\* a require() with one string literal, not yet extracted: the record with
\* the symbols given is pushed
ExtractRequire(x, require, symbols) ==
    IF IsSome(LiteralSource(require.arguments[1]))
       /\ ~Contains(x.extracted_requires, require.span)
    THEN [PushImport(x, Import("SyncStatic",
                               Unwrap(LiteralSource(require.arguments[1])),
                               require.span, symbols, FALSE))
             EXCEPT !.extracted_requires = @ \cup {require.span},
                    !.stats.require_count = @ + 1]
    ELSE x

\* an import() of a string literal, not yet extracted
ExtractDynamicImport(x, import, symbols) ==
    IF IsSome(LiteralSource(import.source))
       /\ ~Contains(x.extracted_dynamic_imports, import.span)
    THEN [PushImport(x, Import("AsyncDynamic",
                               Unwrap(LiteralSource(import.source)),
                               import.span, symbols, FALSE))
             EXCEPT !.extracted_dynamic_imports = @ \cup {import.span},
                    !.stats.dynamic_import_count = @ + 1]
    ELSE x

\* enter_node: AstKind::CallExpression(require)
EnterCallExpression ==
    /\ At("CallExpression")
    /\ LET require == Head(todo).node
       IN  Leave(IF require.callee = "require" /\ Len(require.arguments) = 1
                 THEN ExtractRequire(extractor, require, <<>>)
                 ELSE extractor)

\* enter_node: AstKind::TSImportEqualsDeclaration(decl)
EnterTSImportEqualsDeclaration ==
    /\ At("TSImportEqualsDeclaration")
    /\ LET decl == Head(todo).node
       IN  Leave(IF decl.module_reference.type = "ExternalModuleReference"
                 THEN PushImport(extractor,
                          Import("SyncStatic", decl.module_reference.value,
                                 decl.span,
                                 <<ImportedSymbol("Default", NoneV, decl.id)>>,
                                 IsTypeKind(decl.import_kind)))
                 ELSE extractor)

\* enter_node: AstKind::VariableDeclarator(decl)
EnterVariableDeclarator ==
    /\ At("VariableDeclarator")
    /\ LET decl == Head(todo).node
       IN  IF ~IsSome(decl.init) THEN Leave(extractor)
           ELSE LET init == Unwrap(decl.init)
                    import == extract_dynamic_import_from_expression(init)
                    require == extract_require_from_expression(init)
                    x1 == IF IsSome(import)
                          THEN ExtractDynamicImport(extractor, Unwrap(import),
                                   import_binding_pattern(decl.id))
                          ELSE extractor
                IN  Leave(IF IsSome(require)
                          THEN ExtractRequire(x1, Unwrap(require),
                                   import_binding_pattern(decl.id))
                          ELSE x1)

\* fn visit_export_default_declaration: the record it pushes, if any
ExportDefaultRecord(export) ==
    LET declaration == export.declaration
        record == [ExportDefault EXCEPT
                      !.span = Some(export.span),
                      !.type_only = IsTypescriptSyntax(declaration)]
        symbols ==
            CASE declaration.type \in {"ClassDeclaration", "FunctionDeclaration",
                                       "TSEnumDeclaration",
                                       "TSInterfaceDeclaration"} ->
                    IF IsSome(declaration.id)
                    THEN Some(<<ExportedSymbol(
                                  IF IsTypescriptSyntax(declaration)
                                  THEN "DefaultType" ELSE "Default",
                                  Unwrap(declaration.id))>>)
                    ELSE Some(<<ExportedSymbol("Default", "default")>>)
              [] declaration.type = "Expression"
                 /\ Unwrap(declaration.expression).type = "Identifier" ->
                    Some(<<ExportedSymbol("Default",
                               Unwrap(declaration.expression).name)>>)
              [] OTHER -> NoneV
    IN  IF IsSome(symbols)
        THEN Some([record EXCEPT !.symbols = Unwrap(symbols)])
        ELSE NoneV

\* fn visit_export_default_declaration
VisitExportDefaultDeclaration ==
    /\ At("ExportDefaultDeclaration")
    /\ LET record == ExportDefaultRecord(Head(todo).node)
       IN  Leave(IF IsSome(record)
                 THEN [PushExport(extractor, Unwrap(record))
                          EXCEPT !.stats.exports_default = TRUE]
                 ELSE extractor)

\* fn visit_import_declaration
VisitImportDeclaration ==
    /\ At("ImportDeclaration")
    /\ LET import == Head(todo).node
           specifiers == IF IsSome(import.specifiers)
                         THEN Unwrap(import.specifiers) ELSE <<>>
       IN  Leave(PushImport(extractor,
                     Import("AsyncStatic", import.source, import.span,
                            [i \in 1..Len(specifiers) |->
                                SpecifierSymbol(import.import_kind,
                                                specifiers[i])],
                            IsTypeKind(import.import_kind))))

\* fn visit_import_expression
VisitImportExpression ==
    /\ At("ImportExpression")
    /\ Leave(ExtractDynamicImport(extractor, Head(todo).node, <<>>))

\* MemberExpression::is_specific_member_access / Expression::is_specific_id
IsSpecificId(e, name) == e.type = "Identifier" /\ e.name = name
IsSpecificMemberAccess(member, object, property) ==
    IsSpecificId(member.object, object) /\ member.property = property

\* the name `module.exports = right` is exported under
AssignedName(right) ==
    CASE right.type = "Identifier" -> Some(right.name)
      [] right.type \in {"ClassExpression", "FunctionExpression"} -> right.id
      [] OTHER -> NoneV

\* enter_node: AstKind::AssignmentExpression(expr)
EnterAssignmentExpression ==
    /\ At("AssignmentExpression")
    /\ LET expr == Head(todo).node
           name == AssignedName(expr.right)
       IN  Leave(IF expr.left.type = "StaticMemberExpression"
                    /\ IsSpecificMemberAccess(expr.left, "module", "exports")
                 THEN [PushExport(extractor,
                           [ExportDefault EXCEPT
                               !.kind = "Legacy",
                               !.span = Some(expr.span),
                               !.symbols = <<ExportedSymbol("Default",
                                   IF IsSome(name) THEN Unwrap(name)
                                   ELSE "default")>>])
                          EXCEPT !.stats.exports_default = TRUE]
                 ELSE extractor)

\* enter_node: AstKind::ModuleDeclaration(TSExportAssignment(export))
EnterTSExportAssignment ==
    /\ At("TSExportAssignment")
    /\ Leave(PushExport(extractor,
                 [ExportDefault EXCEPT
                     !.span = Some(Head(todo).node.span),
                     !.symbols = <<ExportedSymbol("Default", "default")>>]))

\* enter_node: AstKind::MemberExpression(StaticMemberExpression(expr))
EnterMemberExpression ==
    /\ At("MemberExpression")
    /\ LET expr == Head(todo).node
       IN  Leave(IF IsSpecificId(expr.object, "exports") /\ expr.property # ""
                 THEN PushExport(extractor,
                          [ExportDefault EXCEPT
                              !.kind = "Legacy",
                              !.span = Some(expr.span),
                              !.symbols = <<ExportedSymbol("Value",
                                                           expr.property)>>])
                 ELSE extractor)

\* fn visit_export_all_declaration
VisitExportAllDeclaration ==
    /\ At("ExportAllDeclaration")
    /\ LET export == Head(todo).node
           kind == IF IsTypeKind(export.export_kind)
                   THEN "NamespaceType" ELSE "Namespace"
       IN  Leave(PushExport(extractor,
                     [ExportDefault EXCEPT
                         !.span = Some(export.span),
                         !.source = Some(export.source),
                         !.type_only = IsTypeKind(export.export_kind),
                         !.symbols = <<ExportedSymbol(kind,
                             IF IsSome(export.exported)
                             THEN Unwrap(export.exported) ELSE "*")>>]))

\* the symbols of the declaration of `export <declaration>`
DeclarationSymbols(decl) ==
    CASE decl.type = "VariableDeclaration" ->
            ExportPatterns([i \in 1..Len(decl.declarations) |->
                               Some(decl.declarations[i])], 1)
      [] decl.type \in {"FunctionDeclaration", "ClassDeclaration"} ->
            <<ExportedSymbol("Value", decl.id)>>
      [] decl.type \in {"TSTypeAliasDeclaration", "TSInterfaceDeclaration",
                        "TSEnumDeclaration", "TSModuleDeclaration",
                        "TSImportEqualsDeclaration"} ->
            <<ExportedSymbol("ValueType", decl.id)>>
      [] OTHER -> <<>>

\* the symbol of one specifier of `export { .. }`
ExportSpecifierSymbol(export_kind, specifier) ==
    ExportedSymbol(IF IsTypeKind(export_kind)
                      \/ IsTypeKind(specifier.export_kind)
                   THEN "ValueType" ELSE "Value",
                   specifier.local)

\* fn visit_export_named_declaration
VisitExportNamedDeclaration ==
    /\ At("ExportNamedDeclaration")
    /\ LET export == Head(todo).node
           symbols ==
               (IF IsSome(export.declaration)
                THEN DeclarationSymbols(Unwrap(export.declaration)) ELSE <<>>)
               \o [i \in 1..Len(export.specifiers) |->
                      ExportSpecifierSymbol(export.export_kind,
                                            export.specifiers[i])]
       IN  Leave(IF symbols # <<>>
                 THEN PushExport(extractor,
                          [ExportDefault EXCEPT
                              !.span = Some(export.span),
                              !.type_only =
                                  ExportNamedIsTypescriptSyntax(export),
                              !.symbols = symbols,
                              !.source = export.source])
                 ELSE extractor)

\* mutant: the keys of the root are not exported
JsonKeySymbolsNone(data) == <<>>

\* if let JsonValue::Object(object) = data { for key in object.keys() .. }
JsonKeySymbols(data) ==
    IF data.type = "Object"
    THEN [i \in 1..Len(data.keys) |-> ExportedSymbol("Value", data.keys[i])]
    ELSE <<>>

\* JsonModule::parse
JsonModuleParse ==
    /\ At("JsonValue")
    /\ Leave(PushExport(extractor,
                 [ExportDefault EXCEPT
                     !.kind = "Native",
                     !.symbols = <<ExportedSymbol("Default", "default")>>
                                 \o JsonKeySymbols(Head(todo).node)]))

\* a source handler is given a file to parse into a module that is new
InitExtract ==
    /\ files = [f \in Files |-> [imports |-> <<>>, exports |-> <<>>]]
    /\ graph = EmptyGraph
    /\ modules = <<>>
    /\ packages = <<>>
    /\ next_id = 1
    /\ paths_to_ids = <<>>
    /\ stack = <<>>
    /\ pending = NoneV
    /\ result = NoResult
    /\ ncalls = 0
    /\ last = [key |-> NoneV, found |-> FALSE,
               query |-> NoneV, fragment |-> NoneV]
    /\ parsed = <<>>
    /\ manifest_read = FALSE
    /\ aborted = {}
    /\ program \in Programs
    /\ todo = Walk(program)
    /\ extractor = NewExtractor

NextExtract ==
    \/ EnterCallExpression
    \/ EnterTSImportEqualsDeclaration
    \/ EnterVariableDeclarator
    \/ VisitExportDefaultDeclaration
    \/ VisitImportDeclaration
    \/ VisitImportExpression
    \/ EnterAssignmentExpression
    \/ EnterTSExportAssignment
    \/ EnterMemberExpression
    \/ VisitExportAllDeclaration
    \/ VisitExportNamedDeclaration
    \/ JsonModuleParse

SpecExtract == InitExtract /\ [][NextExtract]_vars

-----------------------------------------------------------------------------
(* What the extractor emits *)

Imports == extractor.module.imports
Exports == extractor.module.exports
ImportRecords == {Imports[i] : i \in 1..Len(Imports)}

\* the walk is over
Done == todo = <<>>

\* the nodes of the file that the walk reaches with a callback of this kind
Nodes(visit) ==
    LET w == Walk(program)
    IN  {w[i].node : i \in {j \in 1..Len(w) : w[j].visit = visit}}

\* C12: is_side_effect holds of an Import record exactly when it has no
\* symbols, its kind is AsyncStatic and its source_request is not empty.
C12_SideEffectIsStaticImport ==
    \A r \in ImportRecords :
        IsSideEffect(r) <=>
            (r.symbols = <<>> /\ r.kind = "AsyncStatic"
             /\ r.source_request # "")

\* C13: every symbol of an Import record that is type_only has a type kind.
C13_TypeOnlySymbolsAreTypes ==
    \A r \in ImportRecords :
        r.type_only =>
            \A i \in 1..Len(r.symbols) : ImportedIsType(r.symbols[i].kind)

\* the require('s') and import('s') calls of the file with one string literal
\* for a source
LiteralCalls ==
    {c \in Nodes("CallExpression") :
        /\ c.callee = "require"
        /\ Len(c.arguments) = 1
        /\ c.arguments[1].type = "StringLiteral"}
    \cup {c \in Nodes("ImportExpression") : c.source.type = "StringLiteral"}

KindOf(call) ==
    IF call.type = "CallExpression" THEN "SyncStatic" ELSE "AsyncDynamic"

\* the positions of the records emitted for a call
RecordsOf(call) ==
    {i \in 1..Len(Imports) :
        Imports[i].span = call.span /\ Imports[i].kind = KindOf(call)}

\* the call a declarator is initialised with: `= require(..)`, `= import(..)`
\* or `= await import(..)`
InitializerCall(decl) ==
    IF ~IsSome(decl.init) THEN NoneV
    ELSE LET init == Unwrap(decl.init)
         IN  IF init.type \in {"CallExpression", "ImportExpression"}
             THEN Some(init)
             ELSE IF init.type = "AwaitExpression"
                     /\ init.argument.type = "ImportExpression"
                  THEN Some(init.argument)
                  ELSE NoneV

\* the declarators whose value is the module: `= require(..)` and
\* `= await import(..)`; the value of `= import(..)` is a promise
BindsModule(decl) ==
    /\ IsSome(decl.init)
    /\ \/ Unwrap(decl.init).type = "CallExpression"
       \/ Unwrap(decl.init).type = "AwaitExpression"

DefaultName(declaration) ==
    IF IsSome(declaration.id) THEN Unwrap(declaration.id)
    ELSE IF declaration.type = "Expression"
            /\ Unwrap(declaration.expression).type = "Identifier"
         THEN Unwrap(declaration.expression).name
         ELSE "default"

\* C15: after a parse every `export default <operand>` statement has exactly
\* one Export record, of kind Modern, with a single default symbol named as
\* DefaultName says.
C15_EveryExportDefaultRecorded ==
    Done =>
        \A export \in Nodes("ExportDefaultDeclaration") :
            LET at == {i \in 1..Len(Exports) :
                          Exports[i].span = Some(export.span)}
            IN  /\ Cardinality(at) = 1
                /\ \A i \in at :
                       /\ Exports[i].kind = "Modern"
                       /\ Len(Exports[i].symbols) = 1
                       /\ ExportedIsDefault(Exports[i].symbols[1].kind)
                       /\ Exports[i].symbols[1].name =
                              DefaultName(export.declaration)

\* the specifiers of an import declaration
SpecifiersOf(import) ==
    IF IsSome(import.specifiers) THEN Unwrap(import.specifiers) ELSE <<>>

\* C16: the record of a static import has one symbol per specifier, and for
\* a named specifier `{ imported as local }` the symbol's name is the local
\* binding, its source_name is the imported name exactly when that differs
\* from the local binding and is not `default`, and its kind is Default for
\* the imported name `default`, else ValueType when the statement or the
\* specifier is `type`-prefixed, else Value; type_only follows the prefix of
\* the statement only.  Every import declaration is recorded once.
C16_NamedSpecifierSymbols ==
    \A import \in Nodes("ImportDeclaration") :
        LET at == {i \in 1..Len(Imports) :
                      Imports[i].span = import.span
                      /\ Imports[i].kind = "AsyncStatic"}
            specifiers == SpecifiersOf(import)
        IN  /\ Cardinality(at) <= 1
            /\ Done => Cardinality(at) = 1
            /\ \A i \in at :
                   /\ Imports[i].type_only = (import.import_kind = "type")
                   /\ Len(Imports[i].symbols) = Len(specifiers)
                   /\ \A k \in 1..Len(specifiers) :
                          specifiers[k].type = "ImportSpecifier" =>
                              LET sym == Imports[i].symbols[k]
                                  sp == specifiers[k]
                              IN  /\ sym.name = sp.local
                                  /\ sym.source_name =
                                         (IF sp.local # sp.imported
                                             /\ sp.imported # "default"
                                          THEN Some(sp.imported) ELSE NoneV)
                                  /\ sym.kind =
                                         (IF sp.imported = "default"
                                          THEN "Default"
                                          ELSE IF import.import_kind = "type"
                                                  \/ sp.import_kind = "type"
                                               THEN "ValueType" ELSE "Value")

\* `import { type Foo as Bar } from './x'` has been parsed into the record
\* of scenario S2
C16_Witness ==
    /\ Done
    /\ program.body =
           <<ImportDeclaration(SpanAt(1), "value",
                 Some(<<ImportSpecifier("type", "Foo", "Bar")>>), "./x")>>
    /\ Imports =
           <<[kind |-> "AsyncStatic", source_request |-> "./x", module_id |-> 0,
              span |-> SpanAt(1), type_only |-> FALSE,
              symbols |-> <<[kind |-> "ValueType", source_name |-> Some("Foo"),
                             name |-> "Bar"]>>]>>

\* the declarators `<pattern> = require('s')` and `<pattern> = await
\* import('s')` of the file, 's' a string literal
ModuleDeclarators ==
    {decl \in Nodes("VariableDeclarator") :
        /\ BindsModule(decl)
        /\ IsSome(InitializerCall(decl))
        /\ Unwrap(InitializerCall(decl)) \in LiteralCalls}

\* no property of the pattern has a default value
NoDefaults(pattern) ==
    pattern.kind = "ObjectPattern" =>
        \A k \in 1..Len(pattern.properties) :
            pattern.properties[k].value.kind = "BindingIdentifier"

\* the symbol scenario S4 expects of the property `key: local`
ExpectedPropertySymbol(key, local) ==
    IF key = "default" THEN ImportedSymbol("Default", NoneV, local)
    ELSE IF key = local THEN ImportedSymbol("Value", NoneV, local)
    ELSE ImportedSymbol("Value", Some(key), local)

\* the symbols scenario S4 expects of an identifier or object pattern
ExpectedPatternSymbols(pattern) ==
    IF pattern.kind = "BindingIdentifier"
    THEN <<ImportedSymbol("Namespace", NoneV, pattern.name)>>
    ELSE [k \in 1..Len(pattern.properties) |->
             ExpectedPropertySymbol(pattern.properties[k].key,
                                    pattern.properties[k].value.name)]
         \o (IF IsSome(pattern.rest)
             THEN <<ImportedSymbol("Namespace", NoneV,
                                   Unwrap(pattern.rest).name)>>
             ELSE <<>>)

\* C17: after a parse, the record of `const <pattern> = require('s')` or
\* `const <pattern> = await import('s')` lists, for an object pattern, one
\* symbol per property in source order and then the rest element, with
\* {Default, local} and no source_name for the key `default`, {Value, a} for
\* a shorthand property, {Value, Some(key), local} for a renamed one and
\* {Namespace, rest} for the rest; for an identifier pattern, one Namespace
\* symbol.
C17_PatternSymbolsAsExpected ==
    Done =>
        \A decl \in ModuleDeclarators :
            (decl.id.kind \in {"BindingIdentifier", "ObjectPattern"}
             /\ NoDefaults(decl.id)) =>
                LET at == RecordsOf(Unwrap(InitializerCall(decl)))
                IN  /\ Cardinality(at) = 1
                    /\ \A i \in at :
                           Imports[i].symbols = ExpectedPatternSymbols(decl.id)

\* C20: after a parse, the record of a declarator whose object pattern has
\* properties with default values lists the symbols that the same pattern
\* without the default values gives.
C20_DefaultValueChangesNothing ==
    Done =>
        \A decl \in ModuleDeclarators :
            decl.id.kind = "ObjectPattern" =>
                LET same == [decl.id EXCEPT !.properties =
                                [k \in 1..Len(decl.id.properties) |->
                                    IF @[k].value.kind = "AssignmentPattern"
                                    THEN BindingProperty(@[k].key,
                                                         @[k].value.left)
                                    ELSE @[k]]]
                IN  \A i \in RecordsOf(Unwrap(InitializerCall(decl))) :
                        Imports[i].symbols = import_binding_pattern(same)

\* a require(..) or import(..) whose source operand is not one string literal
NonLiteralCall(c) ==
    \/ /\ c.type = "CallExpression"
       /\ c.callee = "require"
       /\ ~(Len(c.arguments) = 1 /\ c.arguments[1].type = "StringLiteral")
    \/ /\ c.type = "ImportExpression"
       /\ c.source.type # "StringLiteral"

\* the callback the walk is about to make is for such a call, reached as a
\* call expression, an import expression or the initializer of a declarator
AtNonLiteralCall ==
    /\ todo # <<>>
    /\ LET node == Head(todo).node
       IN  \/ /\ Head(todo).visit \in {"CallExpression", "ImportExpression"}
              /\ NonLiteralCall(node)
           \/ /\ Head(todo).visit = "VariableDeclarator"
              /\ IsSome(InitializerCall(node))
              /\ NonLiteralCall(Unwrap(InitializerCall(node)))

\* nothing of the extractor refers to a call that is not literal, and the
\* counters count the spans extracted
NoTraceOfNonLiteral ==
    /\ \A c \in Nodes("CallExpression") \cup Nodes("ImportExpression") :
           NonLiteralCall(c) =>
               /\ \A i \in 1..Len(Imports) :
                      Imports[i].kind \in {"SyncStatic", "AsyncDynamic"}
                          => Imports[i].span # c.span
               /\ c.span \notin extractor.extracted_requires
               /\ c.span \notin extractor.extracted_dynamic_imports
    /\ extractor.stats.require_count =
           Cardinality(extractor.extracted_requires)
    /\ extractor.stats.dynamic_import_count =
           Cardinality(extractor.extracted_dynamic_imports)

\* C18: a callback made for a require(..) or import(..) whose source is not
\* one string literal leaves the records, both span sets and both counters
\* as they are, and no record or span of such a call ever appears.
C18_NonLiteralIgnored ==
    /\ []NoTraceOfNonLiteral
    /\ [][AtNonLiteralCall => extractor' = extractor]_vars

\* `require('./p'); const {..} = require(name)` has been parsed: the
\* declarator and the call-expression callbacks met the second call with a
\* span set and a counter that were not empty
C18_Witness ==
    /\ Done
    /\ program.body =
           <<ExpressionStatement(LiteralRequire(SpanAt(1) + 1)),
             VariableDeclarator(PatternS4,
                 Some(CallExpression(SpanAt(2) + 1, "require",
                                     <<IdentifierReference("name")>>)))>>
    /\ Len(Imports) = 1
    /\ extractor.extracted_requires = {SpanAt(1) + 1}
    /\ extractor.stats.require_count = 1

\* C19: JsonModule::parse leaves the module with exactly one Export, of kind
\* Native with no source and no module_id, whose first symbol is {Default,
\* "default"}, followed, when the root is an object, by one {Value, key}
\* per direct key in the order of the keys, and by nothing when the root is
\* not an object; before the call the module has no export.
C19_JsonExports ==
    program.handler = "JsonModule" =>
        /\ ~Done => Exports = <<>>
        /\ Done =>
               /\ Len(Exports) = 1
               /\ Exports[1].kind = "Native"
               /\ Exports[1].source = NoneV
               /\ Exports[1].module_id = NoneV
               /\ Exports[1].symbols[1] =
                      [kind |-> "Default", name |-> "default"]
               /\ LET keys == IF program.data.type = "Object"
                              THEN program.data.keys ELSE <<>>
                  IN  /\ Len(Exports[1].symbols) = 1 + Len(keys)
                      /\ \A k \in 1..Len(keys) :
                             Exports[1].symbols[k + 1] =
                                 [kind |-> "Value", name |-> keys[k]]

\* the document {"b": .., "a": ..} has been parsed
C19_Witness ==
    /\ Done
    /\ program = JsonFile(JsonObject(<<"b", "a">>))
    /\ Len(Exports) = 1
    /\ [k \in 1..3 |-> Exports[1].symbols[k].name] = <<"default", "b", "a">>

-----------------------------------------------------------------------------
(* What a returned load leaves in the graph *)

\* an outermost load call has returned
OuterReturned == ncalls >= 1 /\ stack = <<>>

\* C22: whenever an outermost load call has returned Ok(id), earlier calls
\* having failed or not, the modules map holds a Module with that id.
C22_OkIdIsStored ==
    (OuterReturned /\ result.kind = "ok") => result.id \in ModuleIds

\* nodes, modules and registered paths describe the same modules
StructuresAgree ==
    /\ graph.nodes = 1..(next_id - 1)
    /\ ModuleIds = 1..(next_id - 1)
    /\ Ids = 1..(next_id - 1)
    /\ \A p, q \in DOMAIN paths_to_ids :
          paths_to_ids[p] = paths_to_ids[q] => p = q
    /\ \A m \in Stored :
          m.path \in DOMAIN paths_to_ids /\ paths_to_ids[m.path] = m.id

\* C23: whenever an outermost load call has returned and no load that had
\* registered its path has failed (so, in particular, when no load call has
\* ever returned an error), the graph nodes, the keys of the modules map and
\* the registered ids are all 1..next_id-1, no two paths have the same id,
\* and each stored Module's id is the one registered for its path.
C23_StructuresAgree ==
    (OuterReturned /\ aborted = {}) => StructuresAgree

\* two calls have returned Ok and left two modules; no call failed
C23_Witness ==
    /\ ncalls = 2
    /\ stack = <<>>
    /\ aborted = {}
    /\ result.kind = "ok"
    /\ Len(modules) = 2
    /\ next_id = 3
    /\ DOMAIN packages # {}

\* C24: a load whose manifest cannot be read returns the error with next_id,
\* the graph, paths_to_ids, modules and packages as they were and with no
\* file parsed, whether the embedder or a loop of another load made the
\* call; the path is not registered by it.
C24_ManifestFailureLeavesNoTrace ==
    [][/\ (/\ ncalls' # ncalls
           /\ IsSome(last'.key)
           /\ result' = Err("PackageJsonError")) =>
             /\ UNCHANGED graphVars
             /\ parsed' = parsed /\ aborted' = aborted
             /\ stack' = <<>>
             /\ manifest_read'
             /\ Unwrap(last'.key) \notin DOMAIN paths_to_ids'
       /\ (pending = NoneV /\ pending' = Some("PackageJsonError")) =>
             /\ UNCHANGED graphVars
             /\ parsed' = parsed /\ aborted' = aborted
             /\ stack' = stack
             /\ manifest_read'
             /\ FileB \notin DOMAIN paths_to_ids']_vars

\* a.ts was loaded, then the load of b.ts failed on its manifest
C24_Witness ==
    /\ ncalls = 2
    /\ stack = <<>>
    /\ result = Err("PackageJsonError")
    /\ last.key = Some(FileB)
    /\ next_id = 2
    /\ Len(modules) = 1
    /\ packages = <<>>

-----------------------------------------------------------------------------
(* CommonJS and ES exports *)

\* the positions of the Legacy records at one of these spans
LegacyAt(spans) ==
    {i \in 1..Len(Exports) :
        Exports[i].kind = "Legacy" /\ Exports[i].span \in spans}

\* the assignments `module.exports = X` and `exports.k = X` of the file
ModuleExportsAssignments ==
    {a \in Nodes("AssignmentExpression") :
        /\ a.left.type = "StaticMemberExpression"
        /\ IsSpecificMemberAccess(a.left, "module", "exports")}
ExportsMemberAssignments ==
    {a \in Nodes("AssignmentExpression") :
        /\ a.left.type = "StaticMemberExpression"
        /\ IsSpecificId(a.left.object, "exports")}

\* every `module.exports = X` has its Legacy Default record
ModuleExportsRecorded ==
    \A a \in ModuleExportsAssignments :
        /\ Cardinality(LegacyAt({Some(a.span)})) = 1
        /\ \A i \in LegacyAt({Some(a.span)}) :
               Exports[i].symbols =
                   <<ExportedSymbol("Default",
                        IF IsSome(AssignedName(a.right))
                        THEN Unwrap(AssignedName(a.right)) ELSE "default")>>

\* every `exports.k = X` has its Legacy Value record
ExportsMemberRecorded ==
    \A a \in ExportsMemberAssignments :
        /\ Cardinality(LegacyAt({Some(a.span), Some(a.left.span)})) = 1
        /\ \A i \in LegacyAt({Some(a.span), Some(a.left.span)}) :
               Exports[i].symbols = <<ExportedSymbol("Value", a.left.property)>>

\* every Legacy record is the record of one of these assignments
LegacyOnlyForAssignments ==
    \A i \in 1..Len(Exports) :
        Exports[i].kind = "Legacy" =>
            \/ \E a \in ModuleExportsAssignments : Exports[i].span = Some(a.span)
            \/ \E a \in ExportsMemberAssignments :
                   Exports[i].span \in {Some(a.span), Some(a.left.span)}

\* C21: after a parse, each `module.exports = X` has one Legacy record with
\* a Default symbol named after X (an identifier, a named class or a named
\* function) or "default", each `exports.k = X` has one Legacy record with
\* a Value symbol named k, and there is no other Legacy record.
C21_LegacyExactlyForAssignments ==
    Done => /\ ModuleExportsRecorded
            /\ ExportsMemberRecorded
            /\ LegacyOnlyForAssignments

\* C25: after a parse, the record of an `export { .. }` statement, with or
\* without `from`, names each specifier's symbol by its exported name.
C25_SpecifierNamedAsExported ==
    Done =>
        \A export \in Nodes("ExportNamedDeclaration") :
            export.specifiers # <<>> =>
                LET at == {i \in 1..Len(Exports) :
                              Exports[i].span = Some(export.span)}
                    n == IF IsSome(export.declaration)
                         THEN Len(DeclarationSymbols(Unwrap(export.declaration)))
                         ELSE 0
                IN  /\ Cardinality(at) = 1
                    /\ \A i \in at : \A k \in 1..Len(export.specifiers) :
                           Exports[i].symbols[n + k].name =
                               export.specifiers[k].exported

====
